---- MODULE Spec2Model ----
(***************************************************************************)
(* Rootlink tunnel relay (server/index.js): the tunnel registry, the       *)
(* request/response correlator, the deadline timers and the connection     *)
(* close handler, as one state machine of the relay's event loop.  Every   *)
(* action is one callback of the relay run to completion (the relay is     *)
(* single-threaded).                                                       *)
(***************************************************************************)
EXTENDS Integers, Sequences, FiniteSets, TLC

\* ---- bounds ----
MaxConns == 2           \* persistent connections accepted during a run
MaxReqs == 2            \* public HTTP requests during a run
MaxTunnelIds == 2       \* distinct tunnel ids in use

Conns == 1..MaxConns
Reqs == 1..MaxReqs
TunnelIds == 1..MaxTunnelIds
ReqIds == 1..MaxReqs    \* correlation ids uuidv4() can hand out in a run

Absent == 0             \* tunnels.get(id) === undefined
NoTid == 0              \* url.searchParams.get('tunnelId') === null
NoEntry == 0            \* pendingRequests.get(id) === undefined
NoId == 0               \* a reqId the relay never issued

TIMEOUT_MS == 30000

VARIABLES
  tunnels,          \* registry: tunnel id -> tunnel object (named by the connection that created it)
  pendingRequests,  \* per tunnel object: correlation id -> exchange (NoEntry when absent)
  readyState,       \* per connection: "NEW", "OPEN", "CLOSING", "CLOSED"
  connTid,          \* per connection: the tunnelId captured by its handlers
  sent,             \* per connection: messages the relay sent over it, in order
  reqPc,            \* per public request: "idle", "body", "dispatched", "done"
  reqTid,           \* per public request: req.params.tunnelId
  reqTunnel,        \* per public request: the tunnel object captured at line 46
  reqId,            \* per public request: its correlation id
  timer,            \* per public request: "none", "armed", "cleared", "fired"
  res,              \* per public request: the outcomes written to its HTTP exchange
  nextId,           \* source of fresh correlation ids
  atDispatch,       \* per public request: was its tunnel registered and open when the entry was inserted
  last              \* the callback that ran last

vars == <<tunnels, pendingRequests, readyState, connTid, sent, reqPc, reqTid,
          reqTunnel, reqId, timer, res, nextId, atDispatch, last>>

\* ---- client agent (client/index.js) ----
MaxAttempts == 8        \* calls of connect() during a run
MaxMsgs == 2            \* request messages the agent receives during a run

Gens == 1..MaxAttempts  \* the sockets connect() creates, in order
Msgs == 1..MaxMsgs

RECONNECT_FLOOR == 2000
RECONNECT_CAP == 15000

VARIABLES
  gen,              \* the socket the global ws refers to (number of connect() calls)
  cws,              \* readyState of that socket: "CONNECTING", "OPEN", "CLOSING", "CLOSED"
  reconnectDelay,   \* the global reconnectDelay, in ms
  shouldReconnect,  \* the global shouldReconnect
  ctimer,           \* delay of the pending setTimeout(connect, ..), 0 when none is pending
  alive,            \* the process is running
  closes,           \* closes handled since the last open (or since the start)
  kAt,              \* value of closes when the pending timer was scheduled
  fwd,              \* per request message: "none", "forwarding", "done"
  fwdGen,           \* per request message: the socket it arrived on
  emitted,          \* per request message: the responses sent, as <<socket, status>>
  clast             \* the client callback that ran last

cvars == <<gen, cws, reconnectDelay, shouldReconnect, ctimer, alive, closes, kAt,
           fwd, fwdGen, emitted, clast>>

CEvent(op, m, prev, from) ==
  [op |-> op, msg |-> m, prev |-> prev, from |-> from, kind |-> "none"]

CForwardEvent(m, status, from, kind) ==
  [op |-> "forwardDone", msg |-> m, prev |-> status, from |-> from, kind |-> kind]

\* the state of the agent after the module has run: connect() was called once
ClientInit ==
  /\ gen = 1
  /\ cws = "CONNECTING"
  /\ reconnectDelay = RECONNECT_FLOOR
  /\ shouldReconnect = TRUE
  /\ ctimer = 0
  /\ alive = TRUE
  /\ closes = 0
  /\ kAt = 0
  /\ fwd = [m \in Msgs |-> "none"]
  /\ fwdGen = [m \in Msgs |-> 0]
  /\ emitted = [m \in Msgs |-> <<>>]
  /\ clast = CEvent("start", 0, 0, "none")

\* ---- one body carried through the tunnel (server and client index.js) ----
MaxTokens == 4          \* pieces a body is put together from

VARIABLES
  bdir,             \* "request" (public caller -> local target) or "response" (back)
  bctype,           \* content type of the message the body belongs to: "html", "json", "other"
  payload,          \* the bytes the sender produced
  wire,             \* the body field of the tunnel message: Unset, NullBody, or base64 text
  delivered,        \* the bytes written at the far end
  bstage            \* "start", "encoded", "delivered"

bvars == <<bdir, bctype, payload, wire, delivered, bstage>>

\* no body is in transit
BodyIdle ==
  /\ bdir = "request"
  /\ bctype = "other"
  /\ payload = <<>>
  /\ wire = <<-2>>
  /\ delivered = <<>>
  /\ bstage = "start"

Event(op, c, r, id, bad) == [op |-> op, conn |-> c, req |-> r, id |-> id, bad |-> bad]

EmptyMap == [id \in ReqIds |-> NoEntry]

\* entries of a pending mapping (the exchanges it holds)
Entries(m) == {m[id] : id \in {i \in ReqIds : m[i] # NoEntry}}

\* ---- helpers of the request handler ----

lookup(tid) == tunnels[tid]

\* lines 38-41: GET /api/status/:tunnelId answers connected: !!tunnels.get(tunnelId)
StatusConnected(tid) == tunnels[tid] # Absent

\* the offline test without the readyState check
IsOfflineRegistryOnly(tunnel) == tunnel = Absent

\* line 48: !tunnel || tunnel.ws.readyState !== WebSocket.OPEN
IsOffline(tunnel) == tunnel = Absent \/ readyState[tunnel] # "OPEN"

uuidv4 == nextId

\* Map.prototype.set / delete / has on a pending mapping
MapSet(m, id, r) == [m EXCEPT ![id] = r]
MapDelete(m, id) == [m EXCEPT ![id] = NoEntry]
MapHas(m, id) == id \in ReqIds /\ m[id] # NoEntry

\* ws.send on a socket that is not OPEN: older ws releases throw, newer ones
\* drop the frame silently; on an OPEN socket a string frame is queued.
SendResults(c) == IF readyState[c] = "OPEN" THEN {"sent"} ELSE {"throws", "dropped"}

\* try { res.status(503).send(..) } catch (_) {} : writing to a finished
\* exchange throws before anything reaches the wire
TryWrite(w, status) == IF w = <<>> THEN <<status>> ELSE w

RelayInit ==
  /\ tunnels = [t \in TunnelIds |-> Absent]
  /\ pendingRequests = [c \in Conns |-> EmptyMap]
  /\ readyState = [c \in Conns |-> "NEW"]
  /\ connTid = [c \in Conns |-> NoTid]
  /\ sent = [c \in Conns |-> <<>>]
  /\ reqPc = [r \in Reqs |-> "idle"]
  /\ reqTid = [r \in Reqs |-> NoTid]
  /\ reqTunnel = [r \in Reqs |-> Absent]
  /\ reqId = [r \in Reqs |-> NoId]
  /\ timer = [r \in Reqs |-> "none"]
  /\ res = [r \in Reqs |-> <<>>]
  /\ nextId = 1
  /\ atDispatch = [r \in Reqs |-> "none"]
  /\ last = Event("init", 0, 0, 0, FALSE)

Init == RelayInit /\ ClientInit /\ BodyIdle

\* ---- wss.on('connection') ----

\* a rejection that greets the peer before the tunnelId check
ConnectRejectedGreets(c) ==
  /\ readyState[c] = "NEW"
  /\ \A d \in Conns : d < c => readyState[d] # "NEW"
  /\ readyState' = [readyState EXCEPT ![c] = "CLOSING"]
  /\ connTid' = [connTid EXCEPT ![c] = NoTid]
  /\ sent' = [sent EXCEPT ![c] = <<"connected", "close 4000">>]
  /\ last' = Event("rejected", c, 0, 0, FALSE)
  /\ UNCHANGED <<tunnels, pendingRequests, reqPc, reqTid, reqTunnel,
                 reqId, timer, res, nextId, atDispatch>>
  /\ UNCHANGED <<cvars, bvars>>

\* a connection without tunnelId: ws.close(4000), no handler is attached
ConnectRejected(c) ==
  /\ readyState[c] = "NEW"
  /\ \A d \in Conns : d < c => readyState[d] # "NEW"
  /\ readyState' = [readyState EXCEPT ![c] = "CLOSING"]
  /\ connTid' = [connTid EXCEPT ![c] = NoTid]
  /\ sent' = [sent EXCEPT ![c] = Append(@, "close 4000")]
  /\ last' = Event("rejected", c, 0, 0, FALSE)
  /\ UNCHANGED <<tunnels, pendingRequests, reqPc, reqTid, reqTunnel,
                 reqId, timer, res, nextId, atDispatch>>
  /\ UNCHANGED <<cvars, bvars>>

\* a registration that never sends the connected message
ConnectSilent(c, tid) ==
  /\ readyState[c] = "NEW"
  /\ \A d \in Conns : d < c => readyState[d] # "NEW"
  /\ readyState' = [readyState EXCEPT ![c] = "OPEN"]
  /\ connTid' = [connTid EXCEPT ![c] = tid]
  /\ tunnels' = [tunnels EXCEPT ![tid] = c]
  /\ pendingRequests' = [pendingRequests EXCEPT ![c] = EmptyMap]
  /\ last' = Event("connect", c, 0, 0, FALSE)
  /\ UNCHANGED <<sent, reqPc, reqTid, reqTunnel, reqId, timer, res, nextId, atDispatch>>
  /\ UNCHANGED <<cvars, bvars>>

\* tunnels.set(tunnelId, { ws, pendingRequests: new Map() }); ws.send(connected)
Connect(c, tid) ==
  /\ readyState[c] = "NEW"
  /\ \A d \in Conns : d < c => readyState[d] # "NEW"
  /\ readyState' = [readyState EXCEPT ![c] = "OPEN"]
  /\ connTid' = [connTid EXCEPT ![c] = tid]
  /\ tunnels' = [tunnels EXCEPT ![tid] = c]
  /\ pendingRequests' = [pendingRequests EXCEPT ![c] = EmptyMap]
  /\ sent' = [sent EXCEPT ![c] = Append(@, "connected")]
  /\ last' = Event("connect", c, 0, 0, FALSE)
  /\ UNCHANGED <<reqPc, reqTid, reqTunnel, reqId, timer, res, nextId, atDispatch>>
  /\ UNCHANGED <<cvars, bvars>>

\* the peer's close frame arrived (or the rejected socket finished closing):
\* readyState leaves OPEN before the 'close' event is emitted
BeginClose(c) ==
  /\ readyState[c] = "OPEN"
  /\ readyState' = [readyState EXCEPT ![c] = "CLOSING"]
  /\ last' = Event("closing", c, 0, 0, FALSE)
  /\ UNCHANGED <<tunnels, pendingRequests, connTid, sent, reqPc, reqTid,
                 reqTunnel, reqId, timer, res, nextId, atDispatch>>
  /\ UNCHANGED <<cvars, bvars>>

CloseRejected(c) ==
  /\ readyState[c] = "CLOSING"
  /\ connTid[c] = NoTid
  /\ readyState' = [readyState EXCEPT ![c] = "CLOSED"]
  /\ last' = Event("closedRejected", c, 0, 0, FALSE)
  /\ UNCHANGED <<tunnels, pendingRequests, connTid, sent, reqPc, reqTid,
                 reqTunnel, reqId, timer, res, nextId, atDispatch>>
  /\ UNCHANGED <<cvars, bvars>>

\* ---- ws.on('close') ----

\* the tunnel object the close handler sweeps: whatever is registered under
\* the closing connection's tunnel id
SweptTunnel(c) == tunnels[connTid[c]]

OnClose(c) ==
  /\ readyState[c] \in {"OPEN", "CLOSING"}
  /\ connTid[c] # NoTid
  /\ readyState' = [readyState EXCEPT ![c] = "CLOSED"]
  /\ last' = Event("close", c, 0, 0, FALSE)
  /\ LET tunnel == SweptTunnel(c) IN
       IF tunnel # Absent
       THEN LET swept == Entries(pendingRequests[tunnel]) IN
            /\ timer' = [r \in Reqs |-> IF r \in swept THEN "cleared" ELSE timer[r]]
            /\ res' = [r \in Reqs |-> IF r \in swept THEN TryWrite(res[r], "503 disconnected")
                                      ELSE res[r]]
            /\ tunnels' = [tunnels EXCEPT ![connTid[c]] = Absent]
       ELSE UNCHANGED <<timer, res, tunnels>>
  /\ UNCHANGED <<pendingRequests, connTid, sent, reqPc, reqTid, reqTunnel,
                 reqId, nextId, atDispatch>>
  /\ UNCHANGED <<cvars, bvars>>

\* ---- app.all('/t/:tunnelId*') ----

\* lines 44-59: up to the await of the request body
Arrive(r, tid) ==
  /\ reqPc[r] = "idle"
  /\ \A q \in Reqs : q < r => reqPc[q] # "idle"
  /\ reqTid' = [reqTid EXCEPT ![r] = tid]
  /\ last' = Event("arrive", 0, r, 0, FALSE)
  /\ LET tunnel == lookup(tid) IN
       IF IsOffline(tunnel)
       THEN /\ res' = [res EXCEPT ![r] = Append(@, "503 offline")]
            /\ reqPc' = [reqPc EXCEPT ![r] = "done"]
            /\ UNCHANGED <<reqTunnel, reqId, nextId>>
       ELSE /\ reqTunnel' = [reqTunnel EXCEPT ![r] = tunnel]
            /\ reqId' = [reqId EXCEPT ![r] = uuidv4]
            /\ nextId' = nextId + 1
            /\ reqPc' = [reqPc EXCEPT ![r] = "body"]
            /\ UNCHANGED res
  /\ UNCHANGED <<tunnels, pendingRequests, readyState, connTid, sent, timer, atDispatch>>
  /\ UNCHANGED <<cvars, bvars>>

\* a catch block that forgets the delete
AfterSendFailureKeep(m, id) == m

\* line 93: the catch block's tunnel.pendingRequests.delete(reqId)
AfterSendFailure(m, id) == MapDelete(m, id)

\* lines 61-95: the body has arrived; insert, arm the timer, send
BodyEnd(r) ==
  /\ reqPc[r] = "body"
  /\ LET tunnel == reqTunnel[r]
         id == reqId[r]
         inserted == MapSet(pendingRequests[tunnel], id, r)
     IN \E result \in SendResults(tunnel) :
          /\ atDispatch' = [atDispatch EXCEPT ![r] =
                 IF tunnels[reqTid[r]] = tunnel /\ readyState[tunnel] = "OPEN"
                 THEN "live" ELSE "stale"]
          /\ last' = Event("bodyEnd", tunnel, r, id, result = "throws")
          /\ IF result = "throws"
             THEN /\ timer' = [timer EXCEPT ![r] = "cleared"]
                  /\ pendingRequests' = [pendingRequests EXCEPT ![tunnel] =
                                            AfterSendFailure(inserted, id)]
                  /\ res' = [res EXCEPT ![r] = Append(@, "502")]
                  /\ reqPc' = [reqPc EXCEPT ![r] = "done"]
                  /\ UNCHANGED sent
             ELSE /\ timer' = [timer EXCEPT ![r] = "armed"]
                  /\ pendingRequests' = [pendingRequests EXCEPT ![tunnel] = inserted]
                  /\ sent' = IF result = "sent"
                             THEN [sent EXCEPT ![tunnel] = Append(@, id)]
                             ELSE sent
                  /\ reqPc' = [reqPc EXCEPT ![r] = "dispatched"]
                  /\ UNCHANGED res
  /\ UNCHANGED <<tunnels, readyState, connTid, reqTid, reqTunnel, reqId, nextId>>
  /\ UNCHANGED <<cvars, bvars>>

\* lines 80-85: the deadline callback
Timeout(r) ==
  /\ timer[r] = "armed"
  /\ timer' = [timer EXCEPT ![r] = "fired"]
  /\ last' = Event("timeout", reqTunnel[r], r, reqId[r], FALSE)
  /\ LET tunnel == reqTunnel[r] IN
       IF MapHas(pendingRequests[tunnel], reqId[r])
       THEN /\ pendingRequests' = [pendingRequests EXCEPT ![tunnel] = MapDelete(@, reqId[r])]
            /\ res' = [res EXCEPT ![r] = Append(@, "504")]
            /\ reqPc' = [reqPc EXCEPT ![r] = "done"]
       ELSE UNCHANGED <<pendingRequests, res, reqPc>>
  /\ UNCHANGED <<tunnels, readyState, connTid, sent, reqTid, reqTunnel, reqId,
                 nextId, atDispatch>>
  /\ UNCHANGED <<cvars, bvars>>

\* ---- ws.on('message') ----

\* a lookup by correlation id alone, whatever mapping holds (or held) it
PendingOfAnyTunnel(m, id) ==
  IF \E r \in Reqs : reqId[r] = id /\ id # NoId
  THEN CHOOSE r \in Reqs : reqId[r] = id
  ELSE NoEntry

\* line 139: tunnel.pendingRequests.get(reqId)
PendingOf(m, id) == IF id \in ReqIds THEN m[id] ELSE NoEntry

\* a removal that drops the whole mapping
AfterResponseClear(m, id) == EmptyMap

\* line 143: tunnel.pendingRequests.delete(reqId)
AfterResponse(m, id) == MapDelete(m, id)

\* a message of type 'response' carrying reqId id; bad: its status, headers
\* or body make the delivery code (lines 147-170) throw
OnResponse(c, id, bad) ==
  /\ readyState[c] = "OPEN"
  /\ id < nextId
  /\ connTid[c] # NoTid
  /\ last' = Event("response", c, 0, id, bad)
  /\ LET tunnel == tunnels[connTid[c]]
         pending == IF tunnel = Absent THEN NoEntry
                    ELSE PendingOf(pendingRequests[tunnel], id)
     IN IF pending = NoEntry
        THEN UNCHANGED <<timer, pendingRequests, res, reqPc>>
        ELSE /\ timer' = [timer EXCEPT ![pending] = "cleared"]
             /\ pendingRequests' = [pendingRequests EXCEPT ![tunnel] = AfterResponse(@, id)]
             /\ res' = IF bad THEN res ELSE [res EXCEPT ![pending] = Append(@, "response")]
             /\ reqPc' = IF bad THEN reqPc ELSE [reqPc EXCEPT ![pending] = "done"]
  /\ UNCHANGED <<tunnels, readyState, connTid, sent, reqTid, reqTunnel, reqId,
                 nextId, atDispatch>>
  /\ UNCHANGED <<cvars, bvars>>

\* a message that is not JSON (JSON.parse throws, caught at line 172) or
\* whose type is not 'response'
OnOtherMessage(c) ==
  /\ readyState[c] = "OPEN"
  /\ connTid[c] # NoTid
  /\ last' = Event("otherMessage", c, 0, 0, FALSE)
  /\ UNCHANGED <<tunnels, pendingRequests, readyState, connTid, sent, reqPc, reqTid,
                 reqTunnel, reqId, timer, res, nextId, atDispatch>>
  /\ UNCHANGED <<cvars, bvars>>

Next ==
  \/ \E c \in Conns : ConnectRejected(c)
  \/ \E c \in Conns, tid \in TunnelIds : Connect(c, tid)
  \/ \E c \in Conns : BeginClose(c)
  \/ \E c \in Conns : CloseRejected(c)
  \/ \E c \in Conns : OnClose(c)
  \/ \E r \in Reqs, tid \in TunnelIds : Arrive(r, tid)
  \/ \E r \in Reqs : BodyEnd(r)
  \/ \E r \in Reqs : Timeout(r)
  \/ \E c \in Conns, id \in 0..MaxReqs, bad \in BOOLEAN : OnResponse(c, id, bad)
  \/ \E c \in Conns : OnOtherMessage(c)

Spec == Init /\ [][Next]_vars

\* the request body always ends and an armed timer always fires
FairSpec == Spec /\ \A r \in Reqs : WF_vars(BodyEnd(r)) /\ WF_vars(Timeout(r))

TypeOK ==
  /\ tunnels \in [TunnelIds -> Conns \cup {Absent}]
  /\ readyState \in [Conns -> {"NEW", "OPEN", "CLOSING", "CLOSED"}]
  /\ reqPc \in [Reqs -> {"idle", "body", "dispatched", "done"}]
  /\ timer \in [Reqs -> {"none", "armed", "cleared", "fired"}]
  /\ nextId \in 1..(MaxReqs + 1)


\* ---- client agent: connect(), its handlers, SIGINT ----

svars == vars

\* a growth step that forgets the cap
NextDelayUncapped(d) == (3 * d) \div 2

\* line 174: Math.min(reconnectDelay * 1.5, 15000); every value the delay
\* takes below the cap is a whole number of ms (2000, 3000, 4500, 6750, 10125)
NextDelay(d) == IF 3 * d >= 2 * RECONNECT_CAP THEN RECONNECT_CAP ELSE (3 * d) \div 2

\* an open handler that leaves the delay as it is
DelayOnOpenKeep(d) == d

\* line 125: reconnectDelay = 2000
DelayOnOpen(d) == RECONNECT_FLOOR

\* a forward that reports an unreachable target as a plain 500
forwardToLocalNoSynth(kind) ==
  IF kind = "badUrl" THEN [status |-> 400, body |-> FALSE]
  ELSE IF kind = "unreachable" THEN [status |-> 500, body |-> FALSE]
  ELSE [status |-> 200, body |-> TRUE]

\* lines 54-113: what forwardToLocal resolves with; kind is what the local
\* target does: "badUrl" (new URL throws), "unreachable" (proxyReq error),
\* "ok" (the target answers)
forwardToLocal(kind) ==
  IF kind = "badUrl" THEN [status |-> 400, body |-> FALSE]
  ELSE IF kind = "unreachable" THEN [status |-> 502, body |-> TRUE]
  ELSE [status |-> 200, body |-> TRUE]

ForwardKinds == {"ok", "unreachable", "badUrl"}

\* line 157: ws.send on the socket the global ws refers to. CONNECTING throws
\* in every ws release; CLOSING/CLOSED throws in older releases and drops the
\* frame in newer ones.
ClientSendResults ==
  IF cws = "OPEN" THEN {"sent"}
  ELSE IF cws = "CONNECTING" THEN {"throws"}
  ELSE {"throws", "dropped"}

\* a throw inside the async message handler is an unhandled rejection: the
\* process exits on current Node releases and only warns on older ones
AfterRejection == {FALSE, TRUE}

\* lines 124-127: ws.on('open')
COpen ==
  /\ alive
  /\ cws = "CONNECTING"
  /\ cws' = "OPEN"
  /\ reconnectDelay' = DelayOnOpen(reconnectDelay)
  /\ closes' = 0
  /\ clast' = CEvent("open", 0, reconnectDelay, cws)
  /\ UNCHANGED <<gen, shouldReconnect, ctimer, alive, kAt, fwd, fwdGen, emitted>>
  /\ UNCHANGED <<svars, bvars>>

\* lines 183-185: ws.on('error') only logs; the socket then closes
CError ==
  /\ alive
  /\ cws \in {"CONNECTING", "OPEN"}
  /\ gen < MaxAttempts
  /\ cws' = "CLOSING"
  /\ clast' = CEvent("error", 0, reconnectDelay, cws)
  /\ UNCHANGED <<gen, reconnectDelay, shouldReconnect, ctimer, alive, closes, kAt,
                 fwd, fwdGen, emitted>>
  /\ UNCHANGED <<svars, bvars>>

\* lines 169-176: ws.on('close')
CClose ==
  /\ alive
  /\ cws \in {"CONNECTING", "OPEN", "CLOSING"}
  /\ gen < MaxAttempts
  /\ cws' = "CLOSED"
  /\ clast' = CEvent("close", 0, reconnectDelay, cws)
  /\ IF shouldReconnect
     THEN /\ ctimer' = reconnectDelay
          /\ kAt' = closes
          /\ closes' = closes + 1
          /\ reconnectDelay' = NextDelay(reconnectDelay)
     ELSE UNCHANGED <<ctimer, kAt, closes, reconnectDelay>>
  /\ UNCHANGED <<gen, shouldReconnect, alive, fwd, fwdGen, emitted>>
  /\ UNCHANGED <<svars, bvars>>

\* lines 120-122: the reconnect timer runs connect()
CTimerFire ==
  /\ alive
  /\ ctimer # 0
  /\ gen < MaxAttempts
  /\ gen' = gen + 1
  /\ cws' = "CONNECTING"
  /\ ctimer' = 0
  /\ clast' = CEvent("connect", 0, reconnectDelay, cws)
  /\ UNCHANGED <<reconnectDelay, shouldReconnect, alive, closes, kAt, fwd, fwdGen, emitted>>
  /\ UNCHANGED <<svars, bvars>>

\* lines 188-193: SIGINT: shouldReconnect = false; ws.close(); process.exit(0)
CSigint ==
  /\ alive
  /\ shouldReconnect' = FALSE
  /\ cws' = IF cws \in {"CONNECTING", "OPEN"} THEN "CLOSING" ELSE cws
  /\ alive' = FALSE
  /\ clast' = CEvent("sigint", 0, reconnectDelay, cws)
  /\ UNCHANGED <<gen, reconnectDelay, ctimer, closes, kAt, fwd, fwdGen, emitted>>
  /\ UNCHANGED <<svars, bvars>>

\* lines 149-153: a request message arrives; the handler awaits forwardToLocal
CRequest(m) ==
  /\ alive
  /\ cws = "OPEN"
  /\ fwd[m] = "none"
  /\ \A n \in Msgs : n < m => fwd[n] # "none"
  /\ fwd' = [fwd EXCEPT ![m] = "forwarding"]
  /\ fwdGen' = [fwdGen EXCEPT ![m] = gen]
  /\ clast' = CEvent("request", m, reconnectDelay, cws)
  /\ UNCHANGED <<gen, cws, reconnectDelay, shouldReconnect, ctimer, alive, closes, kAt, emitted>>
  /\ UNCHANGED <<svars, bvars>>

\* lines 153-165: the forward has completed; ws.send(response) on the global ws
CForwardDone(m, kind) ==
  /\ alive
  /\ fwd[m] = "forwarding"
  /\ fwd' = [fwd EXCEPT ![m] = "done"]
  /\ LET response == forwardToLocal(kind) IN
     \E result \in ClientSendResults :
       /\ clast' = CForwardEvent(m, response.status, cws, kind)
       /\ emitted' = IF result = "sent"
                     THEN [emitted EXCEPT ![m] = Append(@, <<gen, response.status>>)]
                     ELSE emitted
       /\ IF result = "throws" THEN alive' \in AfterRejection ELSE alive' = alive
  /\ UNCHANGED <<gen, cws, reconnectDelay, shouldReconnect, ctimer, closes, kAt, fwdGen>>
  /\ UNCHANGED <<svars, bvars>>

ClientNext ==
  \/ COpen
  \/ CError
  \/ CClose
  \/ CTimerFire
  \/ CSigint
  \/ \E m \in Msgs : CRequest(m)
  \/ \E m \in Msgs, kind \in ForwardKinds : CForwardDone(m, kind)

ClientSpec == Init /\ [][ClientNext]_cvars

\* a pending reconnect timer fires, and an errored socket emits close
ClientFairSpec ==
  ClientSpec /\ WF_cvars(CTimerFire) /\ WF_cvars(cws = "CLOSING" /\ CClose)

\* ---- bodies: base64 transport and the HTML rewriter ----

\* characters and bytes are numbers (ASCII codes below 128)
SLASH == 47
GT == 62
EQUALS == 61
Quotes == {34, 39}
REPLACEMENT == 65533          \* U+FFFD, what a byte that is not UTF-8 decodes to

\* the pieces bodies are put together from
Pieces == {
  <<115, 114, 99, 61, 34>>,        \* src="
  <<83, 82, 67, 61, 34>>,        \* SRC="
  <<100, 97, 116, 97, 45, 120, 61, 39>>,   \* data-x='
  <<117, 114, 108, 40>>,            \* url(
  <<60, 104, 101, 97, 100, 62>>,    \* <head>
  <<47>>,                         \* /
  <<97>>,                         \* a
  <<255>> }                       \* a byte that is no text

RECURSIVE Flatten(_)
Flatten(ps) == IF ps = <<>> THEN <<>> ELSE Head(ps) \o Flatten(Tail(ps))

RECURSIVE PieceSeqs(_)
PieceSeqs(n) ==
  IF n = 0 THEN {<<>>}
  ELSE LET shorter == PieceSeqs(n - 1) IN
       shorter \cup {Append(q, x) : q \in {y \in shorter : Len(y) = n - 1}, x \in Pieces}

Bodies == {Flatten(ps) : ps \in PieceSeqs(MaxTokens)}

NullBody == <<-1>>            \* body: null in the tunnel message
Unset == <<-2>>               \* no tunnel message built yet
PAD == 64                     \* '=' in base64 text; 0..63 are the other characters

\* Buffer.prototype.toString('base64')
RECURSIVE Base64Encode(_)
Base64Encode(b) ==
  IF Len(b) = 0 THEN <<>>
  ELSE IF Len(b) = 1 THEN <<b[1] \div 4, (b[1] % 4) * 16, PAD, PAD>>
  ELSE IF Len(b) = 2 THEN <<b[1] \div 4, (b[1] % 4) * 16 + b[2] \div 16, (b[2] % 16) * 4, PAD>>
  ELSE <<b[1] \div 4, (b[1] % 4) * 16 + b[2] \div 16, (b[2] % 16) * 4 + b[3] \div 64, b[3] % 64>>
       \o Base64Encode(SubSeq(b, 4, Len(b)))

\* a decoder that takes the padding for data
RECURSIVE Base64DecodePadAsData(_)
Base64DecodePadAsData(t) ==
  IF Len(t) < 4 THEN <<>>
  ELSE LET z(c) == IF c = PAD THEN 0 ELSE c IN
       <<t[1] * 4 + z(t[2]) \div 16, (z(t[2]) % 16) * 16 + z(t[3]) \div 4, (z(t[3]) % 4) * 64 + z(t[4])>>
       \o Base64DecodePadAsData(SubSeq(t, 5, Len(t)))

\* Buffer.from(text, 'base64')
RECURSIVE Base64Decode(_)
Base64Decode(t) ==
  IF Len(t) < 4 THEN <<>>
  ELSE (<<t[1] * 4 + t[2] \div 16>>
        \o (IF t[3] = PAD THEN <<>> ELSE <<(t[2] % 16) * 16 + t[3] \div 4>>)
        \o (IF t[3] = PAD \/ t[4] = PAD THEN <<>> ELSE <<(t[3] % 4) * 64 + t[4]>>))
       \o Base64Decode(SubSeq(t, 5, Len(t)))

\* if (body): null and the empty string are falsy
Truthy(w) == w # NullBody /\ w # <<>>

\* Buffer.prototype.toString('utf8'): ASCII bytes are themselves, the
\* sequence EF BF BD is U+FFFD, a byte that starts no valid sequence becomes U+FFFD
RECURSIVE Utf8ToString(_)
Utf8ToString(b) ==
  IF b = <<>> THEN <<>>
  ELSE IF b[1] < 128 THEN <<b[1]>> \o Utf8ToString(Tail(b))
  ELSE IF Len(b) >= 3 /\ b[1] = 239 /\ b[2] = 191 /\ b[3] = 189
       THEN <<REPLACEMENT>> \o Utf8ToString(SubSeq(b, 4, Len(b)))
  ELSE <<REPLACEMENT>> \o Utf8ToString(Tail(b))

\* res.send(string): the string written as UTF-8
RECURSIVE StringToUtf8(_)
StringToUtf8(str) ==
  IF str = <<>> THEN <<>>
  ELSE (IF str[1] < 128 THEN <<str[1]>> ELSE <<239, 191, 189>>) \o StringToUtf8(Tail(str))

HasAt(str, i, w) ==
  /\ i >= 1
  /\ i + Len(w) - 1 <= Len(str)
  /\ \A k \in 1..Len(w) : str[i + k - 1] = w[k]

\* \w and [\w-]
IsWordChar(c) == c \in (48..57) \cup (65..90) \cup (97..122) \cup {95}
IsNameChar(c) == IsWordChar(c) \/ c = 45

\* \/(?!\/) at position k
SingleSlashAt(str, k) ==
  /\ k <= Len(str)
  /\ str[k] = SLASH
  /\ (k + 1 > Len(str) \/ str[k + 1] # SLASH)

\* =["']\/(?!\/) with the '=' at position j
ValueTailAt(str, j) ==
  /\ j + 2 <= Len(str)
  /\ str[j] = EQUALS
  /\ str[j + 1] \in Quotes
  /\ SingleSlashAt(str, j + 2)

AttrNames == {<<115, 114, 99>>, <<104, 114, 101, 102>>, <<97, 99, 116, 105, 111, 110>>, <<99, 111, 110, 116, 101, 110, 116>>}
DataPrefix == <<100, 97, 116, 97, 45>>

\* first position at or after i that holds no [\w-] character
RECURSIVE NameRunEnd(_, _)
NameRunEnd(str, i) ==
  IF i > Len(str) \/ ~IsNameChar(str[i]) THEN i ELSE NameRunEnd(str, i + 1)

\* line 22: length of the text the attribute pattern matches at position i, 0 if none
AttrMatchLen(str, i) ==
  IF \E n \in AttrNames : HasAt(str, i, n) /\ ValueTailAt(str, i + Len(n))
  THEN LET n == CHOOSE n \in AttrNames : HasAt(str, i, n) /\ ValueTailAt(str, i + Len(n))
       IN Len(n) + 3
  ELSE IF HasAt(str, i, DataPrefix)
  THEN LET e == NameRunEnd(str, i + Len(DataPrefix)) IN
       IF e > i + Len(DataPrefix) /\ ValueTailAt(str, e) THEN e - i + 3 ELSE 0
  ELSE 0

\* line 22: html.replace(/(..=["'])\/(?!\/)/g, `$1${base}/`)
RECURSIVE ReplaceAttrs(_, _, _)
ReplaceAttrs(str, i, base) ==
  IF i > Len(str) THEN <<>>
  ELSE LET n == AttrMatchLen(str, i) IN
       IF n > 0
       THEN SubSeq(str, i, i + n - 2) \o base \o <<SLASH>> \o ReplaceAttrs(str, i + n, base)
       ELSE <<str[i]>> \o ReplaceAttrs(str, i + 1, base)

UrlOpen == <<117, 114, 108, 40>>

\* line 23: length of the text /url\(["']?\/(?!\/)/ matches at position i, 0 if none
UrlMatchLen(str, i) ==
  IF ~HasAt(str, i, UrlOpen) THEN 0
  ELSE LET j == i + Len(UrlOpen) IN
       IF j <= Len(str) /\ str[j] \in Quotes /\ SingleSlashAt(str, j + 1) THEN Len(UrlOpen) + 2
       ELSE IF SingleSlashAt(str, j) THEN Len(UrlOpen) + 1
       ELSE 0

\* line 23: html.replace(/url\(["']?\/(?!\/)/g, `url(${base}/`)
RECURSIVE ReplaceUrls(_, _, _)
ReplaceUrls(str, i, base) ==
  IF i > Len(str) THEN <<>>
  ELSE LET n == UrlMatchLen(str, i) IN
       IF n > 0
       THEN UrlOpen \o base \o <<SLASH>> \o ReplaceUrls(str, i + n, base)
       ELSE <<str[i]>> \o ReplaceUrls(str, i + 1, base)

\* <head, in any letter case, at position i
HeadOpenAt(str, i) ==
  /\ i + 4 <= Len(str)
  /\ str[i] = 60
  /\ str[i + 1] \in {104, 72}
  /\ str[i + 2] \in {101, 69}
  /\ str[i + 3] \in {97, 65}
  /\ str[i + 4] \in {100, 68}

\* positions of '>' that end a <head[^>]*> match starting at i
HeadCloseOf(str, i) ==
  {p \in (i + 5)..Len(str) : str[p] = GT /\ \A q \in (i + 5)..(p - 1) : str[q] # GT}

\* `\n  <base href="${base}/">`
BaseElement(base) ==
  <<10, 32, 32, 60, 98, 97, 115, 101, 32, 104, 114, 101, 102, 61, 34>> \o base \o <<47, 34, 62>>

\* line 24: html.replace(/(<head[^>]*>)/i, `$1\n  <base href="${base}/">`)
InjectBase(str, base) ==
  LET starts == {i \in 1..Len(str) : HeadOpenAt(str, i) /\ HeadCloseOf(str, i) # {}} IN
  IF starts = {} THEN str
  ELSE LET i == CHOOSE i \in starts : \A k \in starts : i <= k
           p == CHOOSE p \in HeadCloseOf(str, i) : TRUE
       IN SubSeq(str, 1, p) \o BaseElement(base) \o SubSeq(str, p + 1, Len(str))

\* line 21: `/t/${tunnelId}`
BasePath(tunnelId) == <<47, 116, 47>> \o tunnelId

\* a rewriter without the (?!\/) lookahead: it prefixes every value that starts with '/'
rewriteHtmlNoLookahead(html, tunnelId) ==
  LET RECURSIVE All(_, _)
      All(str, i) ==
        IF i > Len(str) THEN <<>>
        ELSE IF \E n \in AttrNames : HasAt(str, i, n) /\ i + Len(n) + 2 <= Len(str)
                     /\ str[i + Len(n)] = EQUALS /\ str[i + Len(n) + 1] \in Quotes
                     /\ str[i + Len(n) + 2] = SLASH
        THEN LET n == CHOOSE n \in AttrNames : HasAt(str, i, n) /\ i + Len(n) + 2 <= Len(str)
                     /\ str[i + Len(n)] = EQUALS /\ str[i + Len(n) + 1] \in Quotes
                     /\ str[i + Len(n) + 2] = SLASH
             IN SubSeq(str, i, i + Len(n) + 1) \o BasePath(tunnelId) \o <<SLASH>>
                \o All(str, i + Len(n) + 3)
        ELSE <<str[i]>> \o All(str, i + 1)
  IN InjectBase(ReplaceUrls(All(html, 1), 1, BasePath(tunnelId)), BasePath(tunnelId))

\* lines 20-26
rewriteHtml(html, tunnelId) ==
  LET base == BasePath(tunnelId) IN
  InjectBase(ReplaceUrls(ReplaceAttrs(html, 1, base), 1, base), base)

\* the tunnel id of the connection the response arrived on
BodyTunnelId == <<84>>        \* T

\* express.json() (line 13) reads a JSON request body before the handler
\* runs; the handler's 'data' and 'end' listeners then never fire
BodyConsumedByMiddleware == bctype = "json" /\ payload # <<>>

\* server lines 61-76: the relay reads the request body and encodes it
RelayEncode ==
  /\ bstage = "start"
  /\ bdir = "request"
  /\ ~BodyConsumedByMiddleware
  /\ wire' = IF payload = <<>> THEN NullBody ELSE Base64Encode(payload)
  /\ bstage' = "encoded"
  /\ UNCHANGED <<bdir, bctype, payload, delivered>>
  /\ UNCHANGED <<svars, cvars>>

\* client lines 108-111: the agent writes the decoded body to the local target
AgentWrite ==
  /\ bstage = "encoded"
  /\ bdir = "request"
  /\ delivered' = IF Truthy(wire) THEN Base64Decode(wire) ELSE <<>>
  /\ bstage' = "delivered"
  /\ UNCHANGED <<bdir, bctype, payload, wire>>
  /\ UNCHANGED <<svars, cvars>>

\* client lines 86-95: the agent collects the local response and encodes it
AgentEncode ==
  /\ bstage = "start"
  /\ bdir = "response"
  /\ wire' = IF payload = <<>> THEN NullBody ELSE Base64Encode(payload)
  /\ bstage' = "encoded"
  /\ UNCHANGED <<bdir, bctype, payload, delivered>>
  /\ UNCHANGED <<svars, cvars>>

\* server lines 154-170: the relay decodes, rewrites HTML, and writes the body
RelayDeliver ==
  /\ bstage = "encoded"
  /\ bdir = "response"
  /\ delivered' =
       IF Truthy(wire)
       THEN LET buf == Base64Decode(wire) IN
            IF bctype = "html"
            THEN StringToUtf8(rewriteHtml(Utf8ToString(buf), BodyTunnelId))
            ELSE buf
       ELSE <<>>
  /\ bstage' = "delivered"
  /\ UNCHANGED <<bdir, bctype, payload, wire>>
  /\ UNCHANGED <<svars, cvars>>

BodyInit ==
  /\ RelayInit
  /\ ClientInit
  /\ \/ bdir = "request" /\ bctype \in {"json", "other"}
     \/ bdir = "response" /\ bctype \in {"html", "other"}
  /\ payload \in Bodies
  /\ wire = Unset
  /\ delivered = <<>>
  /\ bstage = "start"

BodyNext ==
  \/ RelayEncode
  \/ AgentWrite
  \/ AgentEncode
  \/ RelayDeliver

BodySpec == BodyInit /\ [][BodyNext]_bvars

\* ---- vocabulary of the claims ----

\* the tunnel object registered under connection c's tunnel id
RegisteredFor(c) == tunnels[connTid[c]]

\* connection c registered a tunnel id that a later connection registered again
Superseded(c) ==
  /\ connTid[c] # NoTid
  /\ \E d \in Conns : d > c /\ readyState[d] # "NEW" /\ connTid[d] = connTid[c]

\* request r is held by tunnel object c
HeldBy(r, c) == reqId[r] # NoId /\ pendingRequests[c][reqId[r]] = r

Terminal == {"response", "504", "503 disconnected"}

\* C1: every request dispatched while its tunnel was registered and open has
\* at most one outcome written to its exchange, that outcome is the response,
\* a 504 or a 503 disconnect, and as long as it has none its deadline timer
\* is still armed (so that one is still to come).
C1_ExactlyOneOutcome ==
  \A r \in Reqs : atDispatch[r] = "live" =>
    /\ Len(res[r]) <= 1
    /\ res[r] = <<>> => timer[r] = "armed"
    /\ res[r] # <<>> => res[r][1] \in Terminal

\* C2: every public request that reached the relay eventually has an HTTP
\* response written to its exchange.
C2_EveryRequestAnswered ==
  \A r \in Reqs : (reqPc[r] # "idle") ~> (res[r] # <<>>)

\* C3: when a superseded connection closes, every PendingRequest dispatched
\* over it (held in its tunnel object) has its timer cancelled and is answered
\* 503 by that close.
C3_SupersededSweep ==
  [][(last'.op = "close" /\ Superseded(last'.conn)) =>
       \A r \in Entries(pendingRequests[last'.conn]) :
           timer'[r] = "cleared" /\ res'[r] = <<"503 disconnected">>]_vars

\* C4: a registry entry changes only by a new registration or by the close of
\* the connection it holds, and the close of a connection fails no request
\* held by another connection's tunnel object.
C4_EntryDestroyedOnlyByOwnClose ==
  [][/\ \A t \in TunnelIds :
          (tunnels[t] # Absent /\ tunnels'[t] # tunnels[t]) =>
             \/ last'.op = "connect" /\ tunnels'[t] = last'.conn
             \/ last'.op = "close" /\ last'.conn = tunnels[t] /\ tunnels'[t] = Absent
     /\ last'.op = "close" =>
          \A r \in Reqs : (res'[r] # res[r]) => HeldBy(r, last'.conn)]_vars

\* C5: a response message whose reqId is not in the pending mapping of the
\* tunnel registered for its connection's id writes to no exchange, cancels
\* no timer and leaves the registry and every pending mapping unchanged.
C5_StaleResponseIgnored ==
  [][(/\ last'.op = "response"
      /\ \/ RegisteredFor(last'.conn) = Absent
         \/ ~MapHas(pendingRequests[RegisteredFor(last'.conn)], last'.id)) =>
       /\ res' = res
       /\ timer' = timer
       /\ tunnels' = tunnels
       /\ pendingRequests' = pendingRequests]_vars

\* the response raced by the timeout: it arrives after the 504 was written
C5_Witness ==
  /\ last.op = "response"
  /\ \E r \in Reqs : reqId[r] = last.id /\ res[r] = <<"504">> /\ timer[r] = "fired"

\* C6: correlation ids of distinct requests are distinct, and a response
\* message that matches a pending entry acts on the exchange carrying its
\* reqId and on nothing else: that exchange's timer is cancelled, its entry
\* removed and (for a deliverable message) the response written to it, while
\* every other exchange, timer and entry stays as it was.
C6_ResponsePairsById ==
  /\ [](\A r, q \in Reqs : (r # q /\ reqId[r] # NoId /\ reqId[q] # NoId) => reqId[r] # reqId[q])
  /\ [][(/\ last'.op = "response"
         /\ RegisteredFor(last'.conn) # Absent
         /\ MapHas(pendingRequests[RegisteredFor(last'.conn)], last'.id)) =>
          LET tunnel == RegisteredFor(last'.conn)
              p == pendingRequests[tunnel][last'.id]
          IN /\ reqId[p] = last'.id
             /\ timer'[p] = "cleared"
             /\ pendingRequests'[tunnel][last'.id] = NoEntry
             /\ ~last'.bad => res'[p] = Append(res[p], "response")
             /\ \A q \in Reqs \ {p} : res'[q] = res[q] /\ timer'[q] = timer[q]
             /\ \A c \in Conns, id \in ReqIds :
                  (c # tunnel \/ id # last'.id) =>
                     pendingRequests'[c][id] = pendingRequests[c][id]]_vars

\* two requests in flight on one tunnel, the second answered first
C6_Witness ==
  /\ last.op = "response"
  /\ \E r, q \in Reqs :
       /\ r < q
       /\ reqTunnel[r] = reqTunnel[q]
       /\ last.id = reqId[q]
       /\ res[q] = <<"response">>
       /\ timer[r] = "armed" /\ res[r] = <<>>
       /\ HeldBy(r, reqTunnel[r])

\* C7: a request arriving while no connection is registered for its tunnel
\* id, or while the registered connection is not open, is answered 503
\* "Tunnel Offline" at once; no entry is inserted, no timer armed, no message
\* sent and the registry is unchanged.
C7_OfflineAnswered503 ==
  [][(/\ last'.op = "arrive"
      /\ \/ tunnels[reqTid'[last'.req]] = Absent
         \/ readyState[tunnels[reqTid'[last'.req]]] # "OPEN") =>
       /\ res'[last'.req] = <<"503 offline">>
       /\ timer' = timer
       /\ pendingRequests' = pendingRequests
       /\ sent' = sent
       /\ tunnels' = tunnels]_vars

\* a request that arrived while the registered connection was closing
C7_Witness ==
  /\ last.op = "arrive"
  /\ res[last.req] = <<"503 offline">>
  /\ tunnels[reqTid[last.req]] # Absent
  /\ readyState[tunnels[reqTid[last.req]]] = "CLOSING"
  /\ timer[last.req] = "none"

\* C8: when the connection of a tunnel closes, every PendingRequest in its
\* mapping has its timer cancelled and is answered 503, the tunnel id is
\* unregistered, and no deadline timer of that tunnel fires afterwards.
C8_CloseFailsAllAndUnregisters ==
  [][/\ last'.op = "close" =>
          /\ \A r \in Entries(pendingRequests[last'.conn]) :
                timer'[r] = "cleared" /\ res'[r] = <<"503 disconnected">>
          /\ tunnels'[connTid[last'.conn]] = Absent
     /\ last'.op = "timeout" => readyState[last'.conn] # "CLOSED"]_vars

\* C9: a deadline that expires while the entry is present removes the entry
\* and answers 504, an expiry that finds no entry changes nothing, and a
\* request dispatched over a connection that is still open and that got no
\* reply has no outcome other than 504.
C9_TimeoutAnswers504 ==
  /\ [][last'.op = "timeout" =>
          IF MapHas(pendingRequests[last'.conn], last'.id)
          THEN /\ res'[last'.req] = Append(res[last'.req], "504")
               /\ ~MapHas(pendingRequests'[last'.conn], last'.id)
          ELSE res' = res /\ pendingRequests' = pendingRequests]_vars
  /\ [](\A r \in Reqs :
          (atDispatch[r] = "live" /\ readyState[reqTunnel[r]] = "OPEN" /\ res[r] # <<>>) =>
             res[r][1] \in {"504", "response"})

\* C10: when the send throws, the timer is cancelled, the entry just inserted
\* is removed and the exchange answered 502; the pending mappings are what
\* they were before the dispatch and a 502 is never followed by a 504.
C10_SendFailure502 ==
  /\ [][(last'.op = "bodyEnd" /\ last'.bad) =>
          /\ pendingRequests' = pendingRequests
          /\ timer'[last'.req] = "cleared"
          /\ res'[last'.req] = <<"502">>]_vars
  /\ [](\A r \in Reqs :
          (res[r] # <<>> /\ res[r][1] = "502") => (res[r] = <<"502">> /\ timer[r] = "cleared"))

C10_Witness ==
  /\ last.op = "bodyEnd"
  /\ last.bad
  /\ res[last.req] = <<"502">>
  /\ pendingRequests[reqTunnel[last.req]][reqId[last.req]] = NoEntry


\* a connection that registered tunnel id t and is open
LiveConnection(t) == \E c \in Conns : connTid[c] = t /\ readyState[c] = "OPEN"

\* C11: the status endpoint answers connected=true for a tunnel id exactly
\* when an open connection registered for that id exists.
C11_StatusIffLive ==
  \A t \in TunnelIds : StatusConnected(t) <=> LiveConnection(t)

\* a connection that was rejected for its missing tunnel id
Rejected(c) == readyState[c] \in {"CLOSING", "CLOSED"} /\ connTid[c] = NoTid

\* C16: a connection opened without a tunnel id is sent the close frame 4000
\* and nothing else, is never registered, never runs the message handler, and
\* neither its rejection nor its later close changes the registry, a pending
\* mapping, a timer or an exchange.
C16_RejectedHasNoEffect ==
  /\ [](\A c \in Conns : Rejected(c) =>
          /\ sent[c] = <<"close 4000">>
          /\ \A t \in TunnelIds : tunnels[t] # c
          /\ pendingRequests[c] = EmptyMap)
  /\ [][/\ last'.op \in {"response", "otherMessage", "close"} => ~Rejected(last'.conn)
        /\ last'.op \in {"rejected", "closedRejected"} =>
             /\ tunnels' = tunnels
             /\ pendingRequests' = pendingRequests
             /\ timer' = timer
             /\ res' = res]_vars

\* a rejected connection has finished closing while a request is in flight
\* on a registered tunnel
C16_Witness ==
  /\ last.op = "closedRejected"
  /\ readyState[last.conn] = "CLOSED"
  /\ \E r \in Reqs : timer[r] = "armed" /\ HeldBy(r, reqTunnel[r])

\* C19: on every connection that registered, the first message the relay sent
\* is the connected message and no later message is a connected message; so
\* no request message precedes it.
C19_ConnectedOnceAndFirst ==
  \A c \in Conns : (readyState[c] # "NEW" /\ connTid[c] # NoTid) =>
     /\ Len(sent[c]) >= 1
     /\ sent[c][1] = "connected"
     /\ \A i \in 2..Len(sent[c]) : sent[c][i] \in ReqIds

\* a request message was sent over a registered connection
C19_Witness ==
  \E c \in Conns : Len(sent[c]) >= 2 /\ sent[c][1] = "connected" /\ sent[c][2] \in ReqIds

\* C20: a response message received on a connection registered for tunnel id
\* X changes no exchange, timer or entry of a request made under another
\* tunnel id, whatever reqId it carries, and the close of X's connection
\* fails no request of another tunnel id and leaves its registration alone.
C20_TunnelIsolation ==
  [][last'.op \in {"response", "close"} =>
       LET x == connTid[last'.conn] IN
       /\ \A r \in Reqs : (reqTid[r] # NoTid /\ reqTid[r] # x) =>
             /\ res'[r] = res[r]
             /\ timer'[r] = timer[r]
             /\ reqTunnel[r] # Absent =>
                   pendingRequests'[reqTunnel[r]] = pendingRequests[reqTunnel[r]]
       /\ \A t \in TunnelIds \ {x} : tunnels'[t] = tunnels[t]]_vars

\* a response carrying the reqId of another tunnel id's pending request
C20_Witness ==
  /\ last.op = "response"
  /\ \E r \in Reqs :
       /\ reqId[r] = last.id
       /\ reqTid[r] # connTid[last.conn]
       /\ timer[r] = "armed"
       /\ res[r] = <<>>
       /\ HeldBy(r, reqTunnel[r])


\* 2000 * 1.5^k capped at 15000, in closed form
Backoff(k) ==
  IF RECONNECT_FLOOR * 3^k >= RECONNECT_CAP * 2^k THEN RECONNECT_CAP
  ELSE (RECONNECT_FLOOR * 3^k) \div (2^k)

\* C12: the reconnect scheduled at the k-th consecutive close without an open
\* in between waits min(2000 * 1.5^k, 15000) ms, and the reconnect delay is
\* always within [2000, 15000].
C12_BackoffSequence ==
  /\ ctimer # 0 => ctimer = Backoff(kAt)
  /\ reconnectDelay >= RECONNECT_FLOOR
  /\ reconnectDelay <= RECONNECT_CAP
  /\ reconnectDelay = Backoff(closes)

\* the sixth and later consecutive closes wait the capped 15 s
C12_Witness ==
  /\ clast.op = "close"
  /\ kAt = 6
  /\ ctimer = 15000
  /\ clast.prev = 15000

\* C13: every open sets the reconnect delay to 2000 ms, and the reconnect
\* scheduled by the close of a socket that had opened waits exactly 2000 ms.
C13_OpenResetsDelay ==
  [][/\ clast'.op = "open" => reconnectDelay' = RECONNECT_FLOOR
     /\ (clast'.op = "close" /\ clast'.from = "OPEN" /\ shouldReconnect) =>
           ctimer' = RECONNECT_FLOOR]_cvars

\* a socket opens after the delay had grown to the cap
C13_Witness ==
  /\ clast.op = "open"
  /\ clast.prev = RECONNECT_CAP
  /\ reconnectDelay = RECONNECT_FLOOR

\* a new connection attempt was made after socket g
AttemptAfter(g) == gen > g

\* C14: the process ends only by a shutdown request; while none was requested
\* every close and every transport error is eventually followed by a new
\* connection attempt; after a shutdown request no attempt is started.
C14_ReconnectUntilShutdown ==
  /\ [](~alive => ~shouldReconnect)
  /\ \A g \in 1..(MaxAttempts - 1) :
       (gen = g /\ cws \in {"CLOSING", "CLOSED"}) ~> (~shouldReconnect \/ AttemptAfter(g))
  /\ [][~shouldReconnect => gen' = gen]_cvars

\* C15 as claimed: every request message whose forward has completed has
\* exactly one response message, carrying its result.
C15_OneResponsePerRequest ==
  \A m \in Msgs : fwd[m] = "done" => Len(emitted[m]) = 1

\* C15 as amended: no request message ever has two responses; a request
\* whose forward completes while the socket it arrived on is still open has
\* exactly one, sent with the status of the forward: 502 for an unreachable
\* target, 400 for a malformed target URL.
C15_OneResponseWhileConnected ==
  /\ [](\A m \in Msgs : Len(emitted[m]) <= 1 /\ (fwd[m] # "done" => emitted[m] = <<>>))
  /\ [][\A m \in Msgs :
          (/\ clast'.op = "forwardDone" /\ clast'.msg = m
           /\ gen = fwdGen[m] /\ cws = "OPEN") =>
             emitted'[m] = <<<<fwdGen[m], CASE clast'.kind = "ok" -> 200
                                            [] clast'.kind = "unreachable" -> 502
                                            [] clast'.kind = "badUrl" -> 400>>>>]_cvars

\* the answer to a request whose local target is down was sent as a 502
C15_Witness ==
  /\ clast.op = "forwardDone"
  /\ clast.kind = "unreachable"
  /\ emitted[clast.msg] = <<<<fwdGen[clast.msg], 502>>>>


\* the body went through the whole tunnel
BodyDone == bstage = "delivered"

\* the relay treated the body as HTML
HtmlDone == bstage = "delivered" /\ bdir = "response" /\ bctype = "html"

HtmlIn == Utf8ToString(payload)
HtmlOut == Utf8ToString(delivered)

Lower(c) == IF c \in 65..90 THEN c + 32 ELSE c

\* the word w stands at position i; anyCase: in whatever letter case
WordAt(str, i, w, anyCase) ==
  /\ i >= 1
  /\ i + Len(w) - 1 <= Len(str)
  /\ \A k \in 1..Len(w) :
       IF anyCase THEN Lower(str[i + k - 1]) = w[k] ELSE str[i + k - 1] = w[k]

\* one of src, href, action, content, data-<name> ends right before position j
ListedNameBefore(str, j, anyCase) ==
  \/ \E n \in AttrNames : WordAt(str, j - Len(n), n, anyCase)
  \/ \E k \in 1..(j - 6) :
       /\ WordAt(str, k, DataPrefix, anyCase)
       /\ \A q \in (k + 5)..(j - 1) : IsNameChar(str[q])

\* positions of the '=' of a listed attribute whose quoted value follows
QuotedValues(str, anyCase) ==
  {j \in 2..(Len(str) - 2) :
     str[j] = EQUALS /\ str[j + 1] \in Quotes /\ ListedNameBefore(str, j, anyCase)}

\* ... whose value starts with a single '/'
RootRelative(str, anyCase) ==
  {j \in QuotedValues(str, anyCase) : SingleSlashAt(str, j + 2)}

\* ... whose value starts with '//'
ProtocolRelative(str, anyCase) ==
  {j \in QuotedValues(str, anyCase) :
     j + 3 <= Len(str) /\ str[j + 2] = SLASH /\ str[j + 3] = SLASH}

\* ... whose value starts with /t/<tunnelId>/
Prefixed(str, anyCase) ==
  {j \in QuotedValues(str, anyCase) :
     HasAt(str, j + 2, BasePath(BodyTunnelId) \o <<SLASH>>)}

\* positions of a url( whose argument, quoted or not, starts with a single '/'
UrlRootRelative(str) ==
  {i \in 1..Len(str) :
     /\ HasAt(str, i, UrlOpen)
     /\ \/ SingleSlashAt(str, i + 4)
        \/ (i + 4 <= Len(str) /\ str[i + 4] \in Quotes /\ SingleSlashAt(str, i + 5))}

\* positions of a url( whose argument starts with '//'
UrlProtocolRelative(str) ==
  {i \in 1..Len(str) :
     \/ HasAt(str, i, UrlOpen \o <<SLASH, SLASH>>)
     \/ \E q \in Quotes : HasAt(str, i, UrlOpen \o <<q, SLASH, SLASH>>)}

\* position of the '>' that ends the first <head ...> of str, 0 if there is none
FirstHeadEnd(str) ==
  LET ends == {p \in 1..Len(str) :
                 /\ str[p] = GT
                 /\ \E i \in 1..(p - 5) :
                      HeadOpenAt(str, i) /\ \A q \in (i + 5)..(p - 1) : str[q] # GT}
  IN IF ends = {} THEN 0 ELSE CHOOSE p \in ends : \A q \in ends : p <= q

\* the base element stands right after the first <head ...> of out
BaseInjected(out) ==
  /\ FirstHeadEnd(out) # 0
  /\ HasAt(out, FirstHeadEnd(out) + 1, BaseElement(BasePath(BodyTunnelId)))

\* out without the injected base element
SansBase(out) ==
  LET p == FirstHeadEnd(out)
      n == Len(BaseElement(BasePath(BodyTunnelId)))
  IN IF BaseInjected(out)
     THEN SubSeq(out, 1, p) \o SubSeq(out, p + n + 1, Len(out))
     ELSE out

\* the three parts of C18, for attribute names taken in any letter case or
\* in lower case only
RewriteContract(anyCase) ==
  HtmlDone =>
    LET html == HtmlIn
        body == SansBase(HtmlOut)
    IN /\ (FirstHeadEnd(html) # 0) = BaseInjected(HtmlOut)
       /\ (RootRelative(html, anyCase) = {} /\ UrlRootRelative(html) = {}) =>
             body = html
       /\ Cardinality(ProtocolRelative(body, anyCase)) = Cardinality(ProtocolRelative(html, anyCase))
       /\ Cardinality(UrlProtocolRelative(body)) = Cardinality(UrlProtocolRelative(html))
       /\ Prefixed(body, anyCase) = RootRelative(body, anyCase)
       /\ Cardinality(Prefixed(body, anyCase)) = Cardinality(RootRelative(html, anyCase))

\* C18 as claimed: without a root-relative reference the output is the input
\* plus the base element, protocol-relative references stay, and every quoted
\* value of src, href, action, content or data-* (an HTML attribute name, in
\* whatever letter case) that starts with a single '/' comes out prefixed
\* with /t/<tunnelId>.
C18_RewriteAllValues == RewriteContract(TRUE)

\* C18 as amended: the same for the names written in lower case.
C18_RewriteLowerCaseValues == RewriteContract(FALSE)

\* a page with a head and a root-relative src
C18_Witness ==
  /\ HtmlDone
  /\ FirstHeadEnd(HtmlIn) # 0
  /\ RootRelative(HtmlIn, FALSE) # {}
  /\ BaseInjected(HtmlOut)
  /\ Cardinality(Prefixed(SansBase(HtmlOut), FALSE)) = 1

\* C21: an entry is inserted only into the pending mapping of a connection
\* that is, at that moment, registered for its tunnel id and open; a close or
\* an unregistration during the wait for the body keeps the request out.
C21_InsertOnlyIntoRegisteredOpen ==
  [][\A c \in Conns, id \in ReqIds :
       (~MapHas(pendingRequests[c], id) /\ MapHas(pendingRequests'[c], id)) =>
          /\ connTid[c] # NoTid
          /\ RegisteredFor(c) = c
          /\ readyState[c] = "OPEN"]_vars

\* C22: the response of a request is sent on the connection the request
\* arrived on: never on a newer connection, and no send is attempted on a
\* connection that is still connecting.
C22_ResponseOnArrivalConnection ==
  [][\A m \in Msgs :
       (fwd[m] = "forwarding" /\ fwd'[m] = "done") =>
          /\ gen = fwdGen[m]
          /\ cws # "CONNECTING"
          /\ \A k \in 1..Len(emitted'[m]) : emitted'[m][k][1] = fwdGen[m]]_cvars

====
